---- MODULE Spec2Model ----
(***************************************************************************)
(* A model of the vortex broadcast node (src/src/bin/broadcast.rs): the    *)
(* state of BroadcastNode, the arms of BroadcastNode::handle_message, and  *)
(* the threads of main that feed it.                                       *)
(*                                                                         *)
(* handle_message is handle_message with a writer that accepts every      *)
(* write (the node writes to stdout); handle_message_err is the same with  *)
(* a writer whose f-th write fails: the handler returns the error at that  *)
(* write, with what it did to the node before it, and main returns.        *)
(***************************************************************************)
EXTENDS Integers, Sequences, FiniteSets, TLC

VARIABLES
    node,   \* node[n]: the BroadcastNode of the process with id n
    inmsg,  \* the message handled by the latest step (NoMsg before any)
    pre,    \* the node that handled it, as it was before the step
    out,    \* the messages that step wrote, in order
    hist,   \* history of the node SelfId: what it was delivered and wrote
    net,    \* the messages in flight between the nodes of a cluster
    env,    \* what the clients and channels of a cluster have done so far
    proc    \* the threads of main: where each is, stdin and the channel

vars == <<node, inmsg, pre, out, hist, net, env, proc>>

(***************************************************************************)
(* Bounds of the model.                                                    *)
(***************************************************************************)
\* the largest value the message identifier counter may reach
MaxMsgId == 4
\* broadcast values are 1..MaxVal
MaxVal == 2

Values == 1..MaxVal
\* the msg_id of an inbound request is one of two
InIds == {0, 1}

(***************************************************************************)
(* Names on the wire.  SelfId is the id the node got from init; Alias is   *)
(* another name a message may be addressed to and still reach the node.    *)
(***************************************************************************)
SelfId == "n1"
Alias == "a1"
PeerIds == {"n2", "n3"}
ClientIds == {"c1"}
NodeNames == {SelfId} \cup PeerIds
Srcs == {"n2", "c1"}
Dests == {SelfId, Alias}

(***************************************************************************)
(* Messages: vortex::Message and the Payload enum of broadcast.rs.         *)
(***************************************************************************)
Message(src, dest, body) == [src |-> src, dest |-> dest, body |-> body]

Broadcast(msg_id, message) ==
    [type |-> "broadcast", msg_id |-> msg_id, message |-> message]

BroadcastOk(msg_id, in_reply_to) ==
    [type |-> "broadcast_ok", msg_id |-> msg_id, in_reply_to |-> in_reply_to]

Read(msg_id) == [type |-> "read", msg_id |-> msg_id]

ReadOk(msg_id, in_reply_to, messages) ==
    [type |-> "read_ok", msg_id |-> msg_id, in_reply_to |-> in_reply_to,
     messages |-> messages]

Topology(msg_id, topology) ==
    [type |-> "topology", msg_id |-> msg_id, topology |-> topology]

TopologyOk(msg_id, in_reply_to) ==
    [type |-> "topology_ok", msg_id |-> msg_id, in_reply_to |-> in_reply_to]

ResendUnAcked == [type |-> "resend_un_acked"]

UnAckedMessage(n, message) == [node |-> n, message |-> message]

\* the empty HashMap
EmptyMap == [k \in {} |-> 0]

\* HashMap::insert: the new entry replaces an entry under the same key
MapInsert(map, key, val) ==
    [k \in DOMAIN map \cup {key} |-> IF k = key THEN val ELSE map[k]]

\* HashMap::remove: removing an absent key changes nothing
MapRemove(map, key) == [k \in DOMAIN map \ {key} |-> map[k]]

\* HashMap::get(..).unwrap_or(&vec![])
MapGetOrEmpty(map, key) == IF key \in DOMAIN map THEN map[key] ELSE <<>>

\* The orders in which a HashSet or a HashMap may be iterated: every
\* sequence that holds each element of S once.
RECURSIVE Orderings(_)
Orderings(S) ==
    IF S = {} THEN {<<>>}
    ELSE UNION {{<<x>> \o p : p \in Orderings(S \ {x})} : x \in S}

\* Mutant of NewBroadcastNode: the node starts with a neighbor.
NewBroadcastNodeWithPeer(id) ==
    [id |-> id, msg_id_counter |-> 0, messages |-> {}, neighbors |-> <<"n2">>,
     message_buffer |-> EmptyMap]

\* The state of a node as main constructs it.
NewBroadcastNode(id) ==
    [id |-> id, msg_id_counter |-> 0, messages |-> {}, neighbors |-> <<>>,
     message_buffer |-> EmptyMap]

(***************************************************************************)
(* BroadcastNode::handle_message.  Each arm maps the node and the inbound  *)
(* message to the node afterwards and the messages written, in order.      *)
(***************************************************************************)
\* update_msg_id is called by broadcast.rs and defined outside src/: by
\* the specification it advances the counter by one per message.
update_msg_id(counter) == counter + 1

\* Mutant of FloodTargets: the sender of the broadcast is not excluded.
FloodTargetsWithSender(nd, msg) ==
    SelectSeq(nd.neighbors, LAMBDA n : n # msg.dest)

\* the filter of the flood: the neighbors a new value is forwarded to
FloodTargets(nd, msg) ==
    SelectSeq(nd.neighbors, LAMBDA n : n # msg.src /\ n # msg.dest)

\* Mutant of FloodFrom: the id is taken once, before the loop, so every
\* gossip of one flood carries the same msg_id.
RECURSIVE FloodFromOneId(_, _, _, _)
FloodFromOneId(st, targets, message, i) ==
    IF i > Len(targets) THEN st
    ELSE LET n == targets[i]
             msg_id == IF i = 1 THEN update_msg_id(st.node.msg_id_counter)
                       ELSE st.node.msg_id_counter
             m == Message(st.node.id, n, Broadcast(msg_id, message))
             nd == [st.node EXCEPT
                      !.msg_id_counter = msg_id,
                      !.message_buffer =
                          MapInsert(@, msg_id, UnAckedMessage(n, message))]
         IN FloodFromOneId([node |-> nd, out |-> Append(st.out, m)],
                           targets, message, i + 1)

\* the map closure of the flood, applied to targets[i..] in order
RECURSIVE FloodFrom(_, _, _, _)
FloodFrom(st, targets, message, i) ==
    IF i > Len(targets) THEN st
    ELSE LET n == targets[i]
             msg_id == update_msg_id(st.node.msg_id_counter)
             m == Message(st.node.id, n, Broadcast(msg_id, message))
             nd == [st.node EXCEPT
                      !.msg_id_counter = msg_id,
                      !.message_buffer =
                          MapInsert(@, msg_id, UnAckedMessage(n, message))]
         IN FloodFrom([node |-> nd, out |-> Append(st.out, m)],
                      targets, message, i + 1)

\* Mutant of HandleBroadcast: the flood is not guarded by the Value Set.
HandleBroadcastNoDedup(nd, msg) ==
    LET message == msg.body.message
        st0 == [node |-> nd, out |-> <<>>]
        st1 == FloodFrom(st0, FloodTargets(nd, msg), message, 1)
        counter == update_msg_id(st1.node.msg_id_counter)
        m == Message(msg.dest, msg.src, BroadcastOk(counter, msg.body.msg_id))
    IN [node |-> [st1.node EXCEPT !.msg_id_counter = counter,
                                  !.messages = @ \cup {message}],
        out |-> Append(st1.out, m)]

\* Mutant of HandleBroadcast: the acknowledgement is sent from the node's own
\* id instead of the id the broadcast was addressed to.
HandleBroadcastReplyAsSelf(nd, msg) ==
    LET message == msg.body.message
        st0 == [node |-> nd, out |-> <<>>]
        st1 == IF message \notin nd.messages
               THEN FloodFrom(st0, FloodTargets(nd, msg), message, 1)
               ELSE st0
        counter == update_msg_id(st1.node.msg_id_counter)
        m == Message(nd.id, msg.src, BroadcastOk(counter, msg.body.msg_id))
    IN [node |-> [st1.node EXCEPT !.msg_id_counter = counter,
                                  !.messages = @ \cup {message}],
        out |-> Append(st1.out, m)]

\* Mutant of HandleBroadcast: the Value Set is overwritten with the value
\* of the broadcast instead of extended by it.
HandleBroadcastOverwrites(nd, msg) ==
    LET message == msg.body.message
        st0 == [node |-> nd, out |-> <<>>]
        st1 == IF message \notin nd.messages
               THEN FloodFrom(st0, FloodTargets(nd, msg), message, 1)
               ELSE st0
        counter == update_msg_id(st1.node.msg_id_counter)
        m == Message(msg.dest, msg.src, BroadcastOk(counter, msg.body.msg_id))
    IN [node |-> [st1.node EXCEPT !.msg_id_counter = counter,
                                  !.messages = {message}],
        out |-> Append(st1.out, m)]

\* Mutant of HandleBroadcast: the value is forwarded and acknowledged but not
\* put into the Value Set.
HandleBroadcastForgetsValue(nd, msg) ==
    LET message == msg.body.message
        st0 == [node |-> nd, out |-> <<>>]
        st1 == IF message \notin nd.messages
               THEN FloodFrom(st0, FloodTargets(nd, msg), message, 1)
               ELSE st0
        counter == update_msg_id(st1.node.msg_id_counter)
        m == Message(msg.dest, msg.src, BroadcastOk(counter, msg.body.msg_id))
    IN [node |-> [st1.node EXCEPT !.msg_id_counter = counter],
        out |-> Append(st1.out, m)]

\* Mutant of HandleBroadcast: the two ids of the acknowledgement are
\* swapped, so that in_reply_to carries the node's own new id.
HandleBroadcastSwapsIds(nd, msg) ==
    LET message == msg.body.message
        st0 == [node |-> nd, out |-> <<>>]
        st1 == IF message \notin nd.messages
               THEN FloodFrom(st0, FloodTargets(nd, msg), message, 1)
               ELSE st0
        counter == update_msg_id(st1.node.msg_id_counter)
        m == Message(msg.dest, msg.src, BroadcastOk(msg.body.msg_id, counter))
    IN [node |-> [st1.node EXCEPT !.msg_id_counter = counter,
                                  !.messages = @ \cup {message}],
        out |-> Append(st1.out, m)]

HandleBroadcast(nd, msg) ==
    LET message == msg.body.message
        st0 == [node |-> nd, out |-> <<>>]
        st1 == IF message \notin nd.messages
               THEN FloodFrom(st0, FloodTargets(nd, msg), message, 1)
               ELSE st0
        counter == update_msg_id(st1.node.msg_id_counter)
        m == Message(msg.dest, msg.src, BroadcastOk(counter, msg.body.msg_id))
    IN [node |-> [st1.node EXCEPT !.msg_id_counter = counter,
                                  !.messages = @ \cup {message}],
        out |-> Append(st1.out, m)]

\* Mutant of HandleBroadcastOk: the acknowledgement clears every entry for
\* the neighbor that sent it, whatever its key.
HandleBroadcastOkBySender(nd, msg) ==
    LET keep == {k \in DOMAIN nd.message_buffer :
                    nd.message_buffer[k].node # msg.src}
    IN [node |-> [nd EXCEPT !.message_buffer =
                                [k \in keep |-> nd.message_buffer[k]]],
        out |-> <<>>]

HandleBroadcastOk(nd, msg) ==
    [node |-> [nd EXCEPT !.message_buffer = MapRemove(@, msg.body.in_reply_to)],
     out |-> <<>>]

\* Mutant of HandleRead: the reply leaves out the first value iterated.
HandleReadSkipsFirst(nd, msg, order) ==
    LET counter == update_msg_id(nd.msg_id_counter)
        messages == IF order = <<>> THEN order ELSE Tail(order)
        m == Message(msg.dest, msg.src, ReadOk(counter, msg.body.msg_id, messages))
    IN [node |-> [nd EXCEPT !.msg_id_counter = counter], out |-> <<m>>]

\* order: the order in which the HashSet yields its elements
HandleRead(nd, msg, order) ==
    LET counter == update_msg_id(nd.msg_id_counter)
        m == Message(msg.dest, msg.src, ReadOk(counter, msg.body.msg_id, order))
    IN [node |-> [nd EXCEPT !.msg_id_counter = counter], out |-> <<m>>]

\* Mutant of HandleTopology: the new list is appended to the old one.
HandleTopologyMerge(nd, msg) ==
    LET counter == update_msg_id(nd.msg_id_counter)
        m == Message(msg.dest, msg.src, TopologyOk(counter, msg.body.msg_id))
    IN [node |-> [nd EXCEPT
                    !.msg_id_counter = counter,
                    !.neighbors = @ \o MapGetOrEmpty(msg.body.topology, nd.id)],
        out |-> <<m>>]

HandleTopology(nd, msg) ==
    LET counter == update_msg_id(nd.msg_id_counter)
        m == Message(msg.dest, msg.src, TopologyOk(counter, msg.body.msg_id))
    IN [node |-> [nd EXCEPT
                    !.msg_id_counter = counter,
                    !.neighbors = MapGetOrEmpty(msg.body.topology, nd.id)],
        out |-> <<m>>]

\* Mutant of ResendFrom: an entry is resent only while its neighbor is still
\* in the neighbor list; other entries are passed over and not kept.
RECURSIVE ResendFromCurrentOnly(_, _, _)
ResendFromCurrentOnly(st, keys, i) ==
    IF i > Len(keys) THEN st
    ELSE LET e == st.node.message_buffer[keys[i]]
             msg_id == update_msg_id(st.node.msg_id_counter)
             m == Message(st.node.id, e.node, Broadcast(msg_id, e.message))
         IN IF \E j \in 1..Len(st.node.neighbors) : st.node.neighbors[j] = e.node
            THEN ResendFromCurrentOnly(
                     [node |-> [st.node EXCEPT !.msg_id_counter = msg_id],
                      buf |-> MapInsert(st.buf, msg_id,
                                        UnAckedMessage(e.node, e.message)),
                      out |-> Append(st.out, m)],
                     keys, i + 1)
            ELSE ResendFromCurrentOnly(st, keys, i + 1)

\* the loop of the retry tick over keys[i..], the order in which the
\* HashMap yields its entries; st.buf is updated_message_buffer
RECURSIVE ResendFrom(_, _, _)
ResendFrom(st, keys, i) ==
    IF i > Len(keys) THEN st
    ELSE LET e == st.node.message_buffer[keys[i]]
             msg_id == update_msg_id(st.node.msg_id_counter)
             m == Message(st.node.id, e.node, Broadcast(msg_id, e.message))
         IN ResendFrom([node |-> [st.node EXCEPT !.msg_id_counter = msg_id],
                        buf |-> MapInsert(st.buf, msg_id,
                                          UnAckedMessage(e.node, e.message)),
                        out |-> Append(st.out, m)],
                       keys, i + 1)

\* Mutant of HandleResendUnAcked: the gossip is resent but the new entries
\* are not kept, so the buffer is empty after the tick.
HandleResendUnAckedForgets(nd, order) ==
    LET st == ResendFrom([node |-> nd, buf |-> EmptyMap, out |-> <<>>], order, 1)
    IN [node |-> [st.node EXCEPT !.message_buffer = EmptyMap], out |-> st.out]

HandleResendUnAcked(nd, order) ==
    LET st == ResendFrom([node |-> nd, buf |-> EmptyMap, out |-> <<>>], order, 1)
    IN [node |-> [st.node EXCEPT !.message_buffer = st.buf], out |-> st.out]

\* the iteration orders the handling of msg may take
IterOrders(nd, msg) ==
    CASE msg.body.type = "read" -> Orderings(nd.messages)
      [] msg.body.type = "resend_un_acked" -> Orderings(DOMAIN nd.message_buffer)
      [] OTHER -> {<<>>}

handle_message(nd, msg, order) ==
    CASE msg.body.type = "broadcast" -> HandleBroadcast(nd, msg)
      [] msg.body.type = "broadcast_ok" -> HandleBroadcastOk(nd, msg)
      [] msg.body.type = "read" -> HandleRead(nd, msg, order)
      [] msg.body.type = "read_ok" -> [node |-> nd, out |-> <<>>]
      [] msg.body.type = "topology" -> HandleTopology(nd, msg)
      [] msg.body.type = "topology_ok" -> [node |-> nd, out |-> <<>>]
      [] msg.body.type = "resend_un_acked" -> HandleResendUnAcked(nd, order)

\* handle_message when the f-th write of the step fails (1 <= f <= the
\* number of messages the step would write): the node as the handler leaves
\* it when `?` returns the error, and the messages written before.
\*   broadcast: the map closure of the flood has run for the first f
\*     targets (counter, buffer entry) when the f-th gossip fails, and the
\*     value is not inserted; when the broadcast_ok fails, the flood is
\*     complete and the counter and the Value Set are updated;
\*   read, topology: the counter, and the neighbor list, are updated before
\*     the reply is written;
\*   resend_un_acked: the counter has advanced f times and the new entries
\*     are in updated_message_buffer, which is dropped: the buffer is as it was.
handle_message_err(nd, msg, order, f) ==
    LET st0 == [node |-> nd, out |-> <<>>]
    IN CASE msg.body.type = "broadcast" ->
              LET message == msg.body.message
                  targets == IF message \notin nd.messages
                             THEN FloodTargets(nd, msg) ELSE <<>>
              IN IF f <= Len(targets)
                 THEN LET st == FloodFrom(st0, SubSeq(targets, 1, f), message, 1)
                      IN [node |-> st.node, out |-> SubSeq(st.out, 1, f - 1)]
                 ELSE LET r == HandleBroadcast(nd, msg)
                      IN [node |-> r.node, out |-> SubSeq(r.out, 1, f - 1)]
         [] msg.body.type = "read" ->
              [node |-> HandleRead(nd, msg, order).node, out |-> <<>>]
         [] msg.body.type = "topology" ->
              [node |-> HandleTopology(nd, msg).node, out |-> <<>>]
         [] msg.body.type = "resend_un_acked" ->
              LET st == ResendFrom([node |-> nd, buf |-> EmptyMap, out |-> <<>>],
                                   SubSeq(order, 1, f), 1)
              IN [node |-> [nd EXCEPT !.msg_id_counter = st.node.msg_id_counter],
                  out |-> SubSeq(st.out, 1, f - 1)]
         [] OTHER -> st0

(***************************************************************************)
(* One node fed by an arbitrary environment: every inbound message of any  *)
(* kind, from any sender, addressed to the node's id or to an alias, and   *)
(* retry ticks, in any order.                                              *)
(***************************************************************************)
NoMsg == [src |-> "", dest |-> "", body |-> [type |-> "none"]]

\* the neighbor lists a topology message may carry for the node: lists of
\* peers, in either order and with a repetition, and lists that name the
\* node itself
NeighborLists ==
    {<<>>, <<"n2">>, <<"n3">>, <<"n2", "n3">>, <<"n3", "n2">>, <<"n2", "n2">>,
     <<SelfId>>, <<SelfId, "n2">>}

\* topology maps: with an entry for the node, without one, and with an
\* entry under the alias only
TopologyMaps ==
    {(SelfId :> l) @@ ("n2" :> <<SelfId>>) : l \in NeighborLists}
      \cup {("n2" :> <<SelfId>>), (Alias :> <<"n2">>)}

\* src, dest and msg_id of the topology messages: each sender, each
\* destination and each msg_id, in four combinations
TopologyHeaders ==
    {<<"c1", SelfId, 0>>, <<"n2", SelfId, 1>>, <<"c1", Alias, 1>>,
     <<"n2", Alias, 0>>}

\* What the history records of the node SelfId:
\*   delivered[v]  how many broadcasts carrying v it handled
\*   acked[v]      how many broadcast_ok it wrote while handling them that
\*                 carry the msg_id of the broadcast handled
\*   added[v]      how many steps put v into the Value Set
\*   flooded[v]    which deliveries of v (first, second, ...) wrote gossip
\*                 or changed the Retry Buffer
\*   oks           how many broadcast_ok it wrote in all
\*   sent          the msg_id of every message it wrote, in order
\*   pending       the gossip of floods not acknowledged since and not yet
\*                 passed by a retry tick: [id, node, message]
\*   retried       the msg_ids given out by retry ticks
\*   assigned      whether it has handled a topology message
InitHist ==
    [delivered |-> [v \in Values |-> 0],
     acked |-> [v \in Values |-> 0],
     added |-> [v \in Values |-> 0],
     flooded |-> [v \in Values |-> {}],
     oks |-> 0,
     sent |-> <<>>,
     pending |-> {},
     retried |-> {},
     assigned |-> FALSE]

\* the msg_id of every message of a sequence of messages, in order
MsgIds(ms) == [i \in 1..Len(ms) |-> ms[i].body.msg_id]

IsGossip(m) == m.body.type = "broadcast"

Gossip(ms) == {i \in 1..Len(ms) : IsGossip(ms[i])}

Acks(ms) == {i \in 1..Len(ms) : ms[i].body.type = "broadcast_ok"}

\* the history after the node in state nd handled msg with result r
NextHist(h, nd, msg, r) ==
    LET kind == msg.body.type
        gossip == {[id |-> r.out[i].body.msg_id, node |-> r.out[i].dest,
                    message |-> r.out[i].body.message] : i \in Gossip(r.out)}
        h1 == [h EXCEPT
                 !.sent = @ \o MsgIds(r.out),
                 !.oks = @ + Cardinality(Acks(r.out)),
                 !.added = [v \in Values |->
                               @[v] + IF v \in r.node.messages \ nd.messages
                                      THEN 1 ELSE 0],
                 !.pending =
                     CASE kind = "broadcast" -> @ \cup gossip
                       [] kind = "broadcast_ok" ->
                            {p \in @ : p.id # msg.body.in_reply_to}
                       [] kind = "resend_un_acked" -> {}
                       [] OTHER -> @,
                 !.retried = IF kind = "resend_un_acked"
                             THEN @ \cup {g.id : g \in gossip} ELSE @,
                 !.assigned = @ \/ kind = "topology"]
    IN IF kind # "broadcast" THEN h1
       ELSE LET v == msg.body.message
                k == h.delivered[v] + 1
                matching == {i \in Acks(r.out) :
                                r.out[i].body.in_reply_to = msg.body.msg_id}
                floods == Gossip(r.out) # {}
                          \/ r.node.message_buffer # nd.message_buffer
            IN [h1 EXCEPT
                  !.delivered[v] = k,
                  !.acked[v] = @ + Cardinality(matching),
                  !.flooded[v] = IF floods THEN @ \cup {k} ELSE @]

\* What node n makes of msg when it iterates its collections in the given
\* order: the node afterwards, what it wrote, and the history afterwards.
\* ok: the counter stays within the bound of the model.
After(n, msg, order) ==
    LET r == handle_message(node[n], msg, order)
    IN [ok |-> r.node.msg_id_counter <= MaxMsgId,
        node |-> [node EXCEPT ![n] = r.node],
        out |-> r.out,
        hist |-> NextHist(hist, node[n], msg, r)]

RecvBroadcast ==
    \E src \in Srcs, dest \in Dests, msg_id \in InIds, message \in Values :
        LET msg == Message(src, dest, Broadcast(msg_id, message))
            a == After(SelfId, msg, <<>>)
        IN /\ a.ok
           /\ node' = a.node
           /\ inmsg' = msg
           /\ pre' = node[SelfId]
           /\ out' = a.out
           /\ hist' = a.hist
           /\ UNCHANGED <<net, env, proc>>

RecvBroadcastOk ==
    \E in_reply_to \in 0..MaxMsgId :
        LET msg == Message("n2", SelfId, BroadcastOk(0, in_reply_to))
            a == After(SelfId, msg, <<>>)
        IN /\ a.ok
           /\ node' = a.node
           /\ inmsg' = msg
           /\ pre' = node[SelfId]
           /\ out' = a.out
           /\ hist' = a.hist
           /\ UNCHANGED <<net, env, proc>>

RecvRead ==
    \E src \in Srcs, dest \in Dests, msg_id \in InIds :
        LET msg == Message(src, dest, Read(msg_id))
        IN \E order \in IterOrders(node[SelfId], msg) :
               LET a == After(SelfId, msg, order)
               IN /\ a.ok
                  /\ node' = a.node
                  /\ inmsg' = msg
                  /\ pre' = node[SelfId]
                  /\ out' = a.out
                  /\ hist' = a.hist
                  /\ UNCHANGED <<net, env, proc>>

RecvReadOk ==
    \E messages \in {<<>>, <<1>>} :
        LET msg == Message("c1", SelfId, ReadOk(0, 0, messages))
            a == After(SelfId, msg, <<>>)
        IN /\ a.ok
           /\ node' = a.node
           /\ inmsg' = msg
           /\ pre' = node[SelfId]
           /\ out' = a.out
           /\ hist' = a.hist
           /\ UNCHANGED <<net, env, proc>>

RecvTopology ==
    \E h \in TopologyHeaders, topology \in TopologyMaps :
        LET msg == Message(h[1], h[2], Topology(h[3], topology))
            a == After(SelfId, msg, <<>>)
        IN /\ a.ok
           /\ node' = a.node
           /\ inmsg' = msg
           /\ pre' = node[SelfId]
           /\ out' = a.out
           /\ hist' = a.hist
           /\ UNCHANGED <<net, env, proc>>

RecvTopologyOk ==
    \E in_reply_to \in InIds :
        LET msg == Message("c1", SelfId, TopologyOk(0, in_reply_to))
            a == After(SelfId, msg, <<>>)
        IN /\ a.ok
           /\ node' = a.node
           /\ inmsg' = msg
           /\ pre' = node[SelfId]
           /\ out' = a.out
           /\ hist' = a.hist
           /\ UNCHANGED <<net, env, proc>>

\* the tick of the retry timer, as main's resend_handler builds it
Tick ==
    LET msg == Message(SelfId, SelfId, ResendUnAcked)
    IN \E order \in IterOrders(node[SelfId], msg) :
           LET a == After(SelfId, msg, order)
           IN /\ a.ok
              /\ node' = a.node
              /\ inmsg' = msg
              /\ pre' = node[SelfId]
              /\ out' = a.out
              /\ hist' = a.hist
              /\ UNCHANGED <<net, env, proc>>

\* the node alone, without the threads of main around it
NoProc == [main |-> "none"]

\* no cluster: nothing sent by its clients
NoEnv == [topologised |-> {}, broadcasts |-> 0, faults |-> 0]

Init ==
    /\ node = (SelfId :> NewBroadcastNode(SelfId))
    /\ inmsg = NoMsg
    /\ pre = NewBroadcastNode(SelfId)
    /\ out = <<>>
    /\ hist = InitHist
    /\ net = {}
    /\ env = NoEnv
    /\ proc = NoProc

Next ==
    \/ RecvBroadcast
    \/ RecvBroadcastOk
    \/ RecvRead
    \/ RecvReadOk
    \/ RecvTopology
    \/ RecvTopologyOk
    \/ Tick

Spec == Init /\ [][Next]_vars

(***************************************************************************)
(* A cluster of three nodes, each running handle_message, with the         *)
(* topology of the end-to-end scenario: n1 - n2 - n3.  Clients send        *)
(* topology, broadcast and read requests; what a node writes to another    *)
(* node is put in flight; what it writes to a client leaves the model.     *)
(***************************************************************************)
ClusterNodes == {"n1", "n2", "n3"}

ClusterTopology ==
    ("n1" :> <<"n2">>) @@ ("n2" :> <<"n1", "n3">>) @@ ("n3" :> <<"n2">>)

\* the messages of a sequence that are addressed to nodes of the cluster
ToNodes(ms) == {ms[i] : i \in {j \in 1..Len(ms) : ms[j].dest \in ClusterNodes}}

ClusterInit ==
    /\ node = [n \in ClusterNodes |-> NewBroadcastNode(n)]
    /\ inmsg = NoMsg
    /\ pre = NewBroadcastNode("n1")
    /\ out = <<>>
    /\ hist = InitHist
    /\ net = {}
    /\ env = NoEnv
    /\ proc = NoProc

\* a client sends node n the topology of the cluster, once
ClientTopology(n) ==
    LET msg == Message("c1", n, Topology(0, ClusterTopology))
        r == handle_message(node[n], msg, <<>>)
    IN /\ n \notin env.topologised
       /\ r.node.msg_id_counter <= MaxMsgId
       /\ node' = [node EXCEPT ![n] = r.node]
       /\ inmsg' = msg
       /\ pre' = node[n]
       /\ out' = r.out
       /\ net' = net \cup ToNodes(r.out)
       /\ env' = [env EXCEPT !.topologised = @ \cup {n}]
       /\ UNCHANGED <<hist, proc>>

\* a client sends node n a read
ClientRead(n) ==
    LET msg == Message("c1", n, Read(1))
    IN \E order \in IterOrders(node[n], msg) :
           LET r == handle_message(node[n], msg, order)
           IN /\ r.node.msg_id_counter <= MaxMsgId
              /\ node' = [node EXCEPT ![n] = r.node]
              /\ inmsg' = msg
              /\ pre' = node[n]
              /\ out' = r.out
              /\ net' = net \cup ToNodes(r.out)
              /\ UNCHANGED <<hist, env, proc>>

\* a message in flight reaches its node and is handled
Deliver(msg) ==
    LET n == msg.dest
        r == handle_message(node[n], msg, <<>>)
    IN /\ r.node.msg_id_counter <= MaxMsgId
       /\ node' = [node EXCEPT ![n] = r.node]
       /\ inmsg' = msg
       /\ pre' = node[n]
       /\ out' = r.out
       /\ net' = (net \ {msg}) \cup ToNodes(r.out)
       /\ UNCHANGED <<hist, env, proc>>

\* the retry timer of node n ticks
RetryTick(n) ==
    LET msg == Message(n, n, ResendUnAcked)
    IN \E order \in IterOrders(node[n], msg) :
           LET r == handle_message(node[n], msg, order)
           IN /\ r.node.msg_id_counter <= MaxMsgId
              /\ node' = [node EXCEPT ![n] = r.node]
              /\ inmsg' = msg
              /\ pre' = node[n]
              /\ out' = r.out
              /\ net' = net \cup ToNodes(r.out)
              /\ UNCHANGED <<hist, env, proc>>

(***************************************************************************)
(* The end-to-end scenario: every node has its topology before the client  *)
(* broadcasts 7 to n1; no message is lost or duplicated; reads and retry   *)
(* ticks may come at any time.                                             *)
(***************************************************************************)
ScenarioBroadcast ==
    LET msg == Message("c1", "n1", Broadcast(1, 7))
        r == handle_message(node["n1"], msg, <<>>)
    IN /\ env.topologised = ClusterNodes
       /\ env.broadcasts = 0
       /\ r.node.msg_id_counter <= MaxMsgId
       /\ node' = [node EXCEPT !["n1"] = r.node]
       /\ inmsg' = msg
       /\ pre' = node["n1"]
       /\ out' = r.out
       /\ net' = net \cup ToNodes(r.out)
       /\ env' = [env EXCEPT !.broadcasts = 1]
       /\ UNCHANGED <<hist, proc>>

ScenarioNext ==
    \/ \E n \in ClusterNodes : ClientTopology(n)
    \/ ScenarioBroadcast
    \/ \E n \in ClusterNodes : ClientRead(n)
    \/ \E msg \in net : Deliver(msg)
    \/ \E n \in ClusterNodes : RetryTick(n)

ScenarioSpec == ClusterInit /\ [][ScenarioNext]_vars

(***************************************************************************)
(* The cluster on channels that may drop, duplicate and reorder: clients   *)
(* broadcast any value to any node, before or after the node has its       *)
(* topology; a message in flight may be lost, or handled and stay in       *)
(* flight.  The channels lose or duplicate at most MaxFaults messages, so  *)
(* that whatever a node keeps sending gets through in the end.             *)
(***************************************************************************)
\* the number of broadcasts the clients send
MaxBroadcasts == 1
\* the number of messages the channels lose or duplicate
MaxFaults == 1

ClientBroadcast(n, v) ==
    LET msg == Message("c1", n, Broadcast(1, v))
        r == handle_message(node[n], msg, <<>>)
    IN /\ env.broadcasts < MaxBroadcasts
       /\ r.node.msg_id_counter <= MaxMsgId
       /\ node' = [node EXCEPT ![n] = r.node]
       /\ inmsg' = msg
       /\ pre' = node[n]
       /\ out' = r.out
       /\ net' = net \cup ToNodes(r.out)
       /\ env' = [env EXCEPT !.broadcasts = @ + 1]
       /\ UNCHANGED <<hist, proc>>

\* a message in flight is handled and a duplicate of it stays in flight
DeliverDuplicate(msg) ==
    LET n == msg.dest
        r == handle_message(node[n], msg, <<>>)
    IN /\ env.faults < MaxFaults
       /\ r.node.msg_id_counter <= MaxMsgId
       /\ node' = [node EXCEPT ![n] = r.node]
       /\ inmsg' = msg
       /\ pre' = node[n]
       /\ out' = r.out
       /\ net' = net \cup ToNodes(r.out)
       /\ env' = [env EXCEPT !.faults = @ + 1]
       /\ UNCHANGED <<hist, proc>>

\* a message in flight is lost
Drop(msg) ==
    /\ env.faults < MaxFaults
    /\ net' = net \ {msg}
    /\ env' = [env EXCEPT !.faults = @ + 1]
    /\ UNCHANGED <<node, inmsg, pre, out, hist, proc>>

ClusterNext ==
    \/ \E n \in ClusterNodes : ClientTopology(n)
    \/ \E n \in ClusterNodes, v \in Values : ClientBroadcast(n, v)
    \/ \E msg \in net : Deliver(msg)
    \/ \E msg \in net : DeliverDuplicate(msg)
    \/ \E msg \in net : Drop(msg)
    \/ \E n \in ClusterNodes : RetryTick(n)

ClusterSpec == ClusterInit /\ [][ClusterNext]_vars

\* some message of the given type from node a to node b gets through
Through(a, b, type) ==
    \E msg \in net :
        /\ msg.src = a /\ msg.dest = b /\ msg.body.type = type
        /\ Deliver(msg)

\* Retry ticks keep firing at every node (the timer thread of main), the
\* topology message reaches every node, and a channel that holds gossip or
\* acknowledgements delivers one.
ClusterFairness ==
    /\ \A n \in ClusterNodes : WF_vars(RetryTick(n))
    /\ \A n \in ClusterNodes : WF_vars(ClientTopology(n))
    /\ \A a, b \in ClusterNodes :
          /\ WF_vars(Through(a, b, "broadcast"))
          /\ WF_vars(Through(a, b, "broadcast_ok"))

FairClusterSpec == ClusterSpec /\ ClusterFairness

(***************************************************************************)
(* The process: main of broadcast.rs.  The thread message_handler reads    *)
(* stdin and sends each message into the channel through message_tx; the   *)
(* thread resend_handler sleeps, looks for the terminating message and     *)
(* sends a tick through resend_tx; the main thread receives from           *)
(* message_rx and hands each message to handle_message, and after the      *)
(* loop joins message_handler, sends the terminating message and joins     *)
(* resend_handler.                                                         *)
(*   proc.reader  "running" | "done" | "panicked"     (message_handler)    *)
(*   proc.lines   the lines read from stdin so far                         *)
(*   proc.timer   "sleep" | "check" | "send" | "done" | "panicked"         *)
(*                                                    (resend_handler)     *)
(* A thread is "done" when its closure returned and "panicked" when an     *)
(* expect of it panicked; either way the thread is over and what it owns   *)
(* is dropped, but join returns Err for a thread that panicked.            *)
(*   proc.main    "dispatch" | "join_reader" | "terminate" | "join_timer"  *)
(*                | "exited" | "failed"                                    *)
(*   proc.chan    the messages in the channel, oldest first                *)
(*   proc.term    the terminating messages sent and not yet received       *)
(***************************************************************************)
\* the lines stdin delivers before its end
MaxLines == 3
\* the messages the channel holds in the model
MaxChan == 2

\* the lines stdin may hold
ProcInputs ==
    {Message("c1", SelfId, Topology(0, (SelfId :> <<"n2">>))),
     Message("c1", SelfId, Broadcast(0, 1)),
     Message("c1", SelfId, Read(0))}
      \cup {Message("n2", SelfId, BroadcastOk(0, k)) : k \in 1..MaxMsgId}

ProcInit ==
    /\ node = (SelfId :> NewBroadcastNode(SelfId))
    /\ inmsg = NoMsg
    /\ pre = NewBroadcastNode(SelfId)
    /\ out = <<>>
    /\ hist = InitHist
    /\ net = {}
    /\ env = NoEnv
    /\ proc = [reader |-> "running", lines |-> 0, timer |-> "sleep",
               main |-> "dispatch", chan |-> <<>>, term |-> 0]

\* the process has not ended
Running == proc.main \notin {"exited", "failed"}

\* message_rx lives as long as the loop of main that consumes it
ReceiverAlive == proc.main = "dispatch"

\* message_handler reads a line and sends the message
ReadLine ==
    \E msg \in ProcInputs :
        /\ Running
        /\ proc.reader = "running"
        /\ proc.lines < MaxLines
        /\ IF ReceiverAlive
           THEN /\ Len(proc.chan) < MaxChan
                /\ proc' = [proc EXCEPT !.lines = @ + 1,
                                        !.chan = Append(@, msg)]
           ELSE \* send fails and expect panics: the thread is over
                proc' = [proc EXCEPT !.lines = @ + 1, !.reader = "panicked"]
        /\ UNCHANGED <<node, inmsg, pre, out, hist, net, env>>

\* message_handler reads a line that is not a message (or the read fails):
\* expect panics, the thread is over and message_tx is dropped
ReadBadLine ==
    /\ Running
    /\ proc.reader = "running"
    /\ proc.lines < MaxLines
    /\ proc' = [proc EXCEPT !.lines = @ + 1, !.reader = "panicked"]
    /\ UNCHANGED <<node, inmsg, pre, out, hist, net, env>>

\* stdin is at its end: message_handler returns and message_tx is dropped
ReadEof ==
    /\ Running
    /\ proc.reader = "running"
    /\ proc' = [proc EXCEPT !.reader = "done"]
    /\ UNCHANGED <<node, inmsg, pre, out, hist, net, env>>

\* Mutant of TimerStep: instead of sending the tick into the channel, the
\* timer thread resends the buffer itself, beside the main thread.
TimerStepResendsItself ==
    /\ Running
    /\ CASE proc.timer = "sleep" ->
              /\ proc' = [proc EXCEPT !.timer = "check"]
              /\ UNCHANGED <<node, inmsg, pre, out>>
         [] proc.timer = "check" ->
              /\ IF proc.term > 0
                 THEN proc' = [proc EXCEPT !.term = @ - 1, !.timer = "done"]
                 ELSE proc' = [proc EXCEPT !.timer = "send"]
              /\ UNCHANGED <<node, inmsg, pre, out>>
         [] proc.timer = "send" ->
              LET msg == Message(SelfId, SelfId, ResendUnAcked)
              IN \E order \in IterOrders(node[SelfId], msg) :
                     LET r == handle_message(node[SelfId], msg, order)
                     IN /\ r.node.msg_id_counter <= MaxMsgId
                        /\ node' = [node EXCEPT ![SelfId] = r.node]
                        /\ inmsg' = msg
                        /\ pre' = node[SelfId]
                        /\ out' = r.out
                        /\ proc' = [proc EXCEPT !.timer = "sleep"]
         [] OTHER -> FALSE
    /\ UNCHANGED <<hist, net, env>>

\* one step of resend_handler
TimerStep ==
    /\ Running
    /\ CASE proc.timer = "sleep" ->
              proc' = [proc EXCEPT !.timer = "check"]
         [] proc.timer = "check" ->
              \* try_recv is Ok(()) only when a terminating message is there
              IF proc.term > 0
              THEN proc' = [proc EXCEPT !.term = @ - 1, !.timer = "done"]
              ELSE proc' = [proc EXCEPT !.timer = "send"]
         [] proc.timer = "send" ->
              IF ReceiverAlive
              THEN /\ Len(proc.chan) < MaxChan
                   /\ proc' = [proc EXCEPT
                                 !.chan = Append(@, Message(SelfId, SelfId,
                                                            ResendUnAcked)),
                                 !.timer = "sleep"]
              ELSE \* send fails and expect panics: the thread is over
                   proc' = [proc EXCEPT !.timer = "panicked"]
         [] OTHER -> FALSE
    /\ UNCHANGED <<node, inmsg, pre, out, hist, net, env>>

\* a thread is over: its closure returned or panicked
Over(thread) == thread \in {"done", "panicked"}

\* both senders of the channel are dropped: the threads that own them are over
SendersDropped == Over(proc.reader) /\ Over(proc.timer)

\* one step of the main thread, every write to stdout succeeding
MainStep ==
    /\ Running
    /\ CASE proc.main = "dispatch" /\ proc.chan # <<>> ->
              LET msg == Head(proc.chan)
              IN \E order \in IterOrders(node[SelfId], msg) :
                     LET r == handle_message(node[SelfId], msg, order)
                     IN /\ r.node.msg_id_counter <= MaxMsgId
                        /\ node' = [node EXCEPT ![SelfId] = r.node]
                        /\ inmsg' = msg
                        /\ pre' = node[SelfId]
                        /\ out' = r.out
                        /\ proc' = [proc EXCEPT !.chan = Tail(@)]
         [] proc.main = "dispatch" /\ proc.chan = <<>> ->
              \* recv blocks while a sender lives; the loop ends when none does
              /\ SendersDropped
              /\ proc' = [proc EXCEPT !.main = "join_reader"]
              /\ UNCHANGED <<node, inmsg, pre, out>>
         [] proc.main = "join_reader" ->
              \* join waits for the thread; it is Err, and expect panics,
              \* when the thread panicked
              /\ Over(proc.reader)
              /\ IF proc.reader = "done"
                 THEN proc' = [proc EXCEPT !.main = "terminate"]
                 ELSE proc' = [proc EXCEPT !.main = "failed"]
              /\ UNCHANGED <<node, inmsg, pre, out>>
         [] proc.main = "terminate" ->
              \* send fails, and expect panics, when resend_handler is over
              /\ IF ~Over(proc.timer)
                 THEN proc' = [proc EXCEPT !.term = @ + 1, !.main = "join_timer"]
                 ELSE proc' = [proc EXCEPT !.main = "failed"]
              /\ UNCHANGED <<node, inmsg, pre, out>>
         [] proc.main = "join_timer" ->
              /\ Over(proc.timer)
              /\ IF proc.timer = "done"
                 THEN proc' = [proc EXCEPT !.main = "exited"]
                 ELSE proc' = [proc EXCEPT !.main = "failed"]
              /\ UNCHANGED <<node, inmsg, pre, out>>
         [] OTHER -> FALSE
    /\ UNCHANGED <<hist, net, env>>

\* a write to stdout fails while the main thread handles a message:
\* handle_message returns the error with the node as far as it got, main
\* returns the error and the process ends
MainWriteFails ==
    /\ proc.main = "dispatch"
    /\ proc.chan # <<>>
    /\ LET msg == Head(proc.chan)
       IN \E order \in IterOrders(node[SelfId], msg) :
              \E f \in 1..Len(handle_message(node[SelfId], msg, order).out) :
                  LET r == handle_message_err(node[SelfId], msg, order, f)
                  IN /\ r.node.msg_id_counter <= MaxMsgId
                     /\ node' = [node EXCEPT ![SelfId] = r.node]
                     /\ inmsg' = msg
                     /\ pre' = node[SelfId]
                     /\ out' = r.out
                     /\ proc' = [proc EXCEPT !.chan = Tail(@), !.main = "failed"]
    /\ UNCHANGED <<hist, net, env>>

ProcNext ==
    \/ ReadLine
    \/ ReadBadLine
    \/ ReadEof
    \/ TimerStep
    \/ MainStep
    \/ MainWriteFails

ProcSpec == ProcInit /\ [][ProcNext]_vars

\* The threads keep running: the main thread and resend_handler take their
\* next step when they can.  Nothing makes stdin end or a write fail.
FairProcSpec == ProcSpec /\ WF_vars(MainStep) /\ WF_vars(TimerStep)

(***************************************************************************)
(* One node with several sends outstanding (specification RetrySpec): the  *)
(* counter may run further than under Spec, so that a retry tick finds two *)
(* entries in the Retry Buffer, and the inputs are fewer: topology         *)
(* messages that list two neighbors, one neighbor twice, or one neighbor;  *)
(* broadcasts from a client and from a neighbor; acknowledgements; ticks.  *)
(***************************************************************************)
\* the largest value the message identifier counter may reach in RetrySpec
MaxRetryId == 7

RetryLists == {<<"n2", "n3">>, <<"n2", "n2">>, <<"n3">>}

\* as After, for the node SelfId and within MaxRetryId
AfterRetry(msg, order) ==
    LET r == handle_message(node[SelfId], msg, order)
    IN [ok |-> r.node.msg_id_counter <= MaxRetryId,
        node |-> [node EXCEPT ![SelfId] = r.node],
        out |-> r.out,
        hist |-> NextHist(hist, node[SelfId], msg, r)]

AssignNeighbors ==
    \E l \in RetryLists :
        LET msg == Message("c1", SelfId, Topology(0, (SelfId :> l)))
            a == AfterRetry(msg, <<>>)
        IN /\ a.ok
           /\ node' = a.node
           /\ inmsg' = msg
           /\ pre' = node[SelfId]
           /\ out' = a.out
           /\ hist' = a.hist
           /\ UNCHANGED <<net, env, proc>>

Originate ==
    \E src \in Srcs, message \in Values :
        LET msg == Message(src, SelfId, Broadcast(0, message))
            a == AfterRetry(msg, <<>>)
        IN /\ a.ok
           /\ node' = a.node
           /\ inmsg' = msg
           /\ pre' = node[SelfId]
           /\ out' = a.out
           /\ hist' = a.hist
           /\ UNCHANGED <<net, env, proc>>

Acknowledge ==
    \E in_reply_to \in 1..MaxRetryId :
        LET msg == Message("n2", SelfId, BroadcastOk(0, in_reply_to))
            a == AfterRetry(msg, <<>>)
        IN /\ a.ok
           /\ node' = a.node
           /\ inmsg' = msg
           /\ pre' = node[SelfId]
           /\ out' = a.out
           /\ hist' = a.hist
           /\ UNCHANGED <<net, env, proc>>

Resend ==
    LET msg == Message(SelfId, SelfId, ResendUnAcked)
    IN \E order \in IterOrders(node[SelfId], msg) :
           LET a == AfterRetry(msg, order)
           IN /\ a.ok
              /\ node' = a.node
              /\ inmsg' = msg
              /\ pre' = node[SelfId]
              /\ out' = a.out
              /\ hist' = a.hist
              /\ UNCHANGED <<net, env, proc>>

RetryNext ==
    \/ AssignNeighbors
    \/ Originate
    \/ Acknowledge
    \/ Resend

RetrySpec == Init /\ [][RetryNext]_vars

(***************************************************************************)
(* The unique-ids node (src/src/bin/unique-ids.rs): UniqueIdsNode and its  *)
(* StateMachine::apply, which main calls through Node::recv_messages with  *)
(* one message per line of stdin.  Under UniqueIdsSpec node[n] is the      *)
(* UniqueIdsNode of the process with id n, and hist records, per node, the *)
(* ids it returned, in order.                                              *)
(***************************************************************************)
\* the number of generate requests a node handles
MaxGenerate == 11

\* two nodes, the id of one a prefix of the other's
UniqueNodeIds == {"n1", "n11"}

Generate(msg_id) == [type |-> "generate", msg_id |-> msg_id]

GenerateOk(msg_id, in_reply_to, id) ==
    [type |-> "generate_ok", msg_id |-> msg_id, in_reply_to |-> in_reply_to,
     id |-> id]

\* UniqueIdsNode::new
NewUniqueIdsNode(id) == [id |-> id, msg_id_counter |-> 0]

\* Mutant of FormatId: the node id and the counter are joined without the
\* separator.
FormatIdNoSeparator(id, counter) == id \o ToString(counter)

\* format!("{}/{}", self.id, self.msg_id_counter)
FormatId(id, counter) == id \o "/" \o ToString(counter)

\* the loop of apply over messages[i..]
RECURSIVE ApplyFrom(_, _, _)
ApplyFrom(st, messages, i) ==
    IF i > Len(messages) THEN st
    ELSE LET msg == messages[i]
         IN IF msg.body.type = "generate"
            THEN LET counter == st.node.msg_id_counter + 1
                     m == Message(msg.dest, msg.src,
                                  GenerateOk(counter, msg.body.msg_id,
                                             FormatId(st.node.id, counter)))
                 IN ApplyFrom([node |-> [st.node EXCEPT !.msg_id_counter = counter],
                               out |-> Append(st.out, m)],
                              messages, i + 1)
            ELSE ApplyFrom(st, messages, i + 1)

\* UniqueIdsNode::apply: the node afterwards and the responses
apply(nd, messages) == ApplyFrom([node |-> nd, out |-> <<>>], messages, 1)

\* the messages that are not generate requests: a generate_ok and the
\* init, init_ok and error payloads of the library
OtherPayloads ==
    {GenerateOk(1, 0, "n1/1"),
     [type |-> "init", msg_id |-> 1, node_id |-> "n1", node_ids |-> <<"n1", "n11">>],
     [type |-> "init_ok", in_reply_to |-> 1],
     [type |-> "error", in_reply_to |-> 1, code |-> 10, text |-> "unsupported"]}

UniqueIdsInit ==
    /\ node = [n \in UniqueNodeIds |-> NewUniqueIdsNode(n)]
    /\ inmsg = NoMsg
    /\ pre = NewUniqueIdsNode("n1")
    /\ out = <<>>
    /\ hist = [issued |-> [n \in UniqueNodeIds |-> <<>>]]
    /\ net = {}
    /\ env = NoEnv
    /\ proc = NoProc

\* the ids carried by the generate_ok of a sequence of messages, in order
IdsOf(ms) ==
    LET oks == SelectSeq(ms, LAMBDA m : m.body.type = "generate_ok")
    IN [i \in 1..Len(oks) |-> oks[i].body.id]

\* main reads a line that holds a generate request for node n
RecvGenerate(n) ==
    \E src \in ClientIds \cup {"n11"}, dest \in {n, Alias}, msg_id \in InIds :
        LET msg == Message(src, dest, Generate(msg_id))
            r == apply(node[n], <<msg>>)
        IN /\ r.node.msg_id_counter <= MaxGenerate
           /\ node' = [node EXCEPT ![n] = r.node]
           /\ inmsg' = msg
           /\ pre' = node[n]
           /\ out' = r.out
           /\ hist' = [hist EXCEPT !.issued[n] = @ \o IdsOf(r.out)]
           /\ UNCHANGED <<net, env, proc>>

\* main reads a line that holds a message of another kind for node n
RecvOther(n) ==
    \E body \in OtherPayloads :
        LET msg == Message("c1", n, body)
            r == apply(node[n], <<msg>>)
        IN /\ node' = [node EXCEPT ![n] = r.node]
           /\ inmsg' = msg
           /\ pre' = node[n]
           /\ out' = r.out
           /\ hist' = [hist EXCEPT !.issued[n] = @ \o IdsOf(r.out)]
           /\ UNCHANGED <<net, env, proc>>

UniqueIdsNext ==
    \/ \E n \in UniqueNodeIds : RecvGenerate(n)
    \/ \E n \in UniqueNodeIds : RecvOther(n)

UniqueIdsSpec == UniqueIdsInit /\ [][UniqueIdsNext]_vars

(***************************************************************************)
(* Properties of one node (specification Spec).  self is the node after    *)
(* the latest step, pre the node before it, inmsg the message handled and  *)
(* out what the step wrote.                                                *)
(***************************************************************************)
self == node[SelfId]

Kind == inmsg.body.type

RECURSIVE SumOver(_, _)
SumOver(f, S) ==
    IF S = {} THEN 0
    ELSE LET x == CHOOSE y \in S : TRUE IN f[x] + SumOver(f, S \ {x})

Range(seq) == {seq[i] : i \in 1..Len(seq)}

\* the values carried by the broadcasts handled so far
Delivered == {v \in Values : hist.delivered[v] > 0}

\* the buffer entries the latest step created
NewKeys == DOMAIN self.message_buffer \ DOMAIN pre.message_buffer

\* C2 (dedup idempotence): a value delivered N >= 1 times was added to the
\* Value Set exactly once and acknowledged N times, each acknowledgement
\* carrying the msg_id of its delivery; only the first delivery can have
\* written gossip or touched the Retry Buffer; and the node wrote no
\* broadcast_ok besides these.
DedupIdempotence ==
    /\ \A v \in Values :
          /\ hist.delivered[v] >= 1 =>
                /\ hist.added[v] = 1
                /\ v \in self.messages
                /\ hist.acked[v] = hist.delivered[v]
                /\ hist.flooded[v] \subseteq {1}
    /\ hist.oks = SumOver(hist.delivered, Values)
    /\ (Kind = "broadcast" /\ inmsg.body.message \in pre.messages) =>
          /\ Gossip(out) = {}
          /\ self.message_buffer = pre.message_buffer

\* C2 witness: a value delivered twice, flooded to a neighbor by the
\* first delivery.
DedupWitness ==
    \E v \in Values :
        /\ hist.delivered[v] = 2
        /\ hist.flooded[v] = {1}
        /\ Kind = "broadcast" /\ inmsg.body.message = v

\* C3 (no-bounce), as claimed: handling a broadcast writes no gossip and
\* creates no buffer entry addressed to the sender of the broadcast or to
\* the node's own id.
NoBounce ==
    Kind = "broadcast" =>
        /\ \A i \in Gossip(out) : out[i].dest \notin {inmsg.src, pre.id}
        /\ \A k \in NewKeys :
              self.message_buffer[k].node \notin {inmsg.src, pre.id}

\* C4 (read completeness): a read is answered by exactly one read_ok whose
\* messages are, as a set, the values of the broadcasts handled so far, and
\* it changes neither the Value Set, the neighbor list nor the Retry Buffer.
ReadCompleteness ==
    Kind = "read" =>
        /\ Len(out) = 1
        /\ out[1].body.type = "read_ok"
        /\ Range(out[1].body.messages) = Delivered
        /\ self.messages = pre.messages
        /\ self.neighbors = pre.neighbors
        /\ self.message_buffer = pre.message_buffer

\* C4 witness: a read answered with both values after one of them was
\* delivered twice, the reply listing them in descending order.
ReadWitness ==
    /\ Kind = "read"
    /\ Len(out) = 1
    /\ out[1].body.messages = <<2, 1>>
    /\ \E v \in Values : hist.delivered[v] = 2

\* C5 (topology replacement): after a topology message the neighbor list is
\* the map's entry for the node's id, or empty when the map has none, and
\* exactly one topology_ok was written.
TopologyReplacement ==
    Kind = "topology" =>
        /\ self.neighbors =
               IF pre.id \in DOMAIN inmsg.body.topology
               THEN inmsg.body.topology[pre.id] ELSE <<>>
        /\ Len(out) = 1
        /\ out[1].body.type = "topology_ok"

\* C5 witness: topology B = [n3] handled after topology A = [n2] leaves the
\* list [n3].
TopologyWitness ==
    /\ Kind = "topology"
    /\ pre.neighbors = <<"n2">>
    /\ self.neighbors = <<"n3">>

\* C6 (retry under loss): gossip flooded under id k and not acknowledged is
\* in the Retry Buffer until the next retry tick; the tick keeps an entry
\* for the same neighbor and value under a new id k' > k and writes gossip
\* with msg_id k' to that neighbor; a broadcast_ok with in_reply_to = k'
\* removes the entry, and empties the buffer when it was the only entry.
RetryUnderLoss ==
    /\ \A p \in hist.pending :
          /\ p.id \in DOMAIN self.message_buffer
          /\ self.message_buffer[p.id] = UnAckedMessage(p.node, p.message)
    /\ Kind = "resend_un_acked" =>
          \A k \in DOMAIN pre.message_buffer :
              \E k2 \in DOMAIN self.message_buffer :
                  /\ k2 > k
                  /\ self.message_buffer[k2] = pre.message_buffer[k]
                  /\ \E i \in 1..Len(out) :
                        out[i] = Message(pre.id, pre.message_buffer[k].node,
                                         Broadcast(k2, pre.message_buffer[k].message))
    /\ Kind = "broadcast_ok" =>
          /\ inmsg.body.in_reply_to \notin DOMAIN self.message_buffer
          /\ DOMAIN pre.message_buffer \subseteq {inmsg.body.in_reply_to}
                => self.message_buffer = EmptyMap

\* C6 witness: the acknowledgement of an id given out by a retry tick
\* removes the only entry of the buffer.
RetryWitness ==
    /\ Kind = "broadcast_ok"
    /\ inmsg.body.in_reply_to \in hist.retried
    /\ DOMAIN pre.message_buffer = {inmsg.body.in_reply_to}
    /\ self.message_buffer = EmptyMap

\* C9 (message identifier counter): a step never lowers the counter and
\* raises it by the number of messages it wrote (by nothing when it handles
\* broadcast_ok, read_ok or topology_ok); the msg_ids of all messages the
\* node ever wrote are strictly increasing in the order written.
CounterMonotone ==
    /\ self.msg_id_counter >= pre.msg_id_counter
    /\ self.msg_id_counter = pre.msg_id_counter + Len(out)
    /\ Kind \in {"broadcast_ok", "read_ok", "topology_ok"} =>
          /\ out = <<>>
          /\ self.msg_id_counter = pre.msg_id_counter
    /\ \A i, j \in 1..Len(hist.sent) : i < j => hist.sent[i] < hist.sent[j]
    /\ \A i \in 1..Len(hist.sent) : hist.sent[i] <= self.msg_id_counter

\* C9 witness: the node has written gossip from a flood, gossip from a
\* retry, a broadcast_ok and a topology_ok.
CounterWitness ==
    /\ Kind = "resend_un_acked"
    /\ Len(out) = 1
    /\ Len(hist.sent) = 4
    /\ hist.oks = 1

ReplyTo ==
    [broadcast |-> "broadcast_ok", read |-> "read_ok", topology |-> "topology_ok"]

Replies(ms) ==
    {i \in 1..Len(ms) :
        ms[i].body.type \in {"broadcast_ok", "read_ok", "topology_ok"}}

\* C10 (reply addressing and correlation): a broadcast, read or topology
\* request gets exactly one reply of its kind, from the request's dest to the
\* request's src with in_reply_to the request's msg_id; no other step
\* writes a reply.
ReplyAddressing ==
    IF Kind \in DOMAIN ReplyTo
    THEN /\ Cardinality(Replies(out)) = 1
         /\ \A i \in Replies(out) :
               /\ out[i].body.type = ReplyTo[Kind]
               /\ out[i].src = inmsg.dest
               /\ out[i].dest = inmsg.src
               /\ out[i].body.in_reply_to = inmsg.body.msg_id
    ELSE Replies(out) = {}

\* C10 witness: a broadcast of a value already known, addressed to the
\* alias, is acknowledged from the alias.
ReplyWitness ==
    /\ Kind = "broadcast"
    /\ inmsg.dest = Alias
    /\ inmsg.body.message \in pre.messages
    /\ inmsg.body.msg_id = 1
    /\ Len(out) = 1
    /\ out[1].src = Alias

\* C15 (traffic before topology assignment): until the node has handled a
\* topology message its neighbor list is empty; a broadcast handled then
\* puts its value into the Value Set, writes exactly one message, a
\* broadcast_ok, and no gossip, and leaves the Retry Buffer as it was; a read
\* handled then returns the values received so far.
TrafficBeforeTopology ==
    ~hist.assigned =>
        /\ self.neighbors = <<>>
        /\ pre.neighbors = <<>>
        /\ Kind = "broadcast" =>
              /\ inmsg.body.message \in self.messages
              /\ Len(out) = 1
              /\ out[1].body.type = "broadcast_ok"
              /\ Gossip(out) = {}
              /\ self.message_buffer = pre.message_buffer
        /\ Kind = "read" =>
              /\ Len(out) = 1
              /\ out[1].body.type = "read_ok"
              /\ Range(out[1].body.messages) = Delivered

\* C15 witness: before any topology message, a read after two broadcasts
\* with different values returns both.
TrafficBeforeTopologyWitness ==
    /\ ~hist.assigned
    /\ Kind = "read"
    /\ Range(out[1].body.messages) = Values
    /\ hist.oks = 2
    /\ self.message_buffer = EmptyMap

(***************************************************************************)
(* Properties of the Retry Buffer (specifications Spec and RetrySpec).     *)
(***************************************************************************)
\* the entries of a buffer, and how many of its keys hold the entry e
Entries(buf) == {buf[k] : k \in DOMAIN buf}

PairCount(buf, e) == Cardinality({k \in DOMAIN buf : buf[k] = e})

\* how many gossip messages of a sequence go to e.node carrying e.message
GossipCount(ms, e) ==
    Cardinality({i \in Gossip(ms) :
                    ms[i].dest = e.node /\ ms[i].body.message = e.message})

\* the ids of the messages the node wrote before the latest step
SentBefore == {hist.sent[i] : i \in 1..(Len(hist.sent) - Len(out))}

\* C11 (a retry tick replaces the buffer generation): a tick on buffer B
\* writes exactly |B| messages, all gossip from the node, one per entry, to
\* the entry's neighbor with the entry's value, under ids that are new,
\* pairwise distinct and greater than every id used before; afterwards the
\* buffer has |B| entries, one under each of these ids, the same
\* (neighbor, value) pairs as B with the same multiplicities, and no key
\* of B; a tick on an empty buffer writes nothing and changes nothing; a
\* tick never changes the Value Set or the neighbor list, whether or not
\* the entry's neighbor is still in the list.
RetryGeneration ==
    Kind = "resend_un_acked" =>
        LET B == pre.message_buffer
            B2 == self.message_buffer
        IN /\ Len(out) = Cardinality(DOMAIN B)
           /\ Gossip(out) = 1..Len(out)
           /\ \A i \in 1..Len(out) :
                 /\ out[i].src = pre.id
                 /\ out[i].body.msg_id > pre.msg_id_counter
                 /\ \A k \in SentBefore \cup DOMAIN B : out[i].body.msg_id > k
                 /\ \A j \in 1..Len(out) :
                       i # j => out[i].body.msg_id # out[j].body.msg_id
                 /\ out[i].body.msg_id \in DOMAIN B2
                 /\ B2[out[i].body.msg_id] =
                        UnAckedMessage(out[i].dest, out[i].body.message)
           /\ Cardinality(DOMAIN B2) = Cardinality(DOMAIN B)
           /\ \A e \in Entries(B) \cup Entries(B2) :
                 /\ PairCount(B2, e) = PairCount(B, e)
                 /\ GossipCount(out, e) = PairCount(B, e)
           /\ DOMAIN B \cap DOMAIN B2 = {}
           /\ B = EmptyMap => out = <<>> /\ self = pre
           /\ self.messages = pre.messages
           /\ self.neighbors = pre.neighbors

\* C11 witness: a tick resends two entries, one of them to a neighbor that
\* a later topology message took off the neighbor list.
RetryGenerationWitness ==
    /\ Kind = "resend_un_acked"
    /\ Cardinality(DOMAIN pre.message_buffer) = 2
    /\ Len(out) = 2
    /\ \E k \in DOMAIN pre.message_buffer :
          pre.message_buffer[k].node \notin Range(pre.neighbors)

\* C12 (at most one outstanding entry per neighbor and value), as claimed:
\* whatever topology messages, broadcasts, acknowledgements and retry ticks
\* the node has handled, no two keys of the Retry Buffer hold an entry for
\* the same neighbor and the same value.
OneEntryPerPair ==
    \A e \in Entries(self.message_buffer) : PairCount(self.message_buffer, e) = 1

\* C13 (acknowledgement handling): a broadcast_ok with in_reply_to = k takes
\* the key k out of the Retry Buffer when it is there and leaves every other
\* entry as it was; when k is not a key the buffer is unchanged; either way
\* nothing is written and the Value Set, the neighbor list and the counter
\* are unchanged.  No other step, a retry tick included, lowers the number
\* of entries the buffer holds for a neighbor and value.
AckHandling ==
    LET B == pre.message_buffer
        B2 == self.message_buffer
    IN IF Kind = "broadcast_ok"
       THEN /\ DOMAIN B2 = DOMAIN B \ {inmsg.body.in_reply_to}
            /\ \A k \in DOMAIN B2 : B2[k] = B[k]
            /\ inmsg.body.in_reply_to \notin DOMAIN B => B2 = B
            /\ out = <<>>
            /\ self.messages = pre.messages
            /\ self.neighbors = pre.neighbors
            /\ self.msg_id_counter = pre.msg_id_counter
       ELSE \A e \in Entries(B) : PairCount(B2, e) >= PairCount(B, e)

\* C13 witness: of two entries outstanding, for two neighbors, the
\* acknowledgement of one key removes that entry and the other stays.
AckHandlingWitness ==
    /\ Kind = "broadcast_ok"
    /\ Cardinality(DOMAIN pre.message_buffer) = 2
    /\ Cardinality({e.node : e \in Entries(pre.message_buffer)}) = 2
    /\ inmsg.body.in_reply_to \in DOMAIN pre.message_buffer
    /\ Cardinality(DOMAIN self.message_buffer) = 1

\* C16 (Value Set monotonicity): every step leaves in the Value Set what was
\* in it; only a broadcast step changes it, and a broadcast step leaves the
\* set it found extended by the value of the broadcast and by nothing else;
\* so the set holds every value ever delivered.
ValueSetMonotone ==
    /\ pre.messages \subseteq self.messages
    /\ self.messages # pre.messages => Kind = "broadcast"
    /\ Kind = "broadcast" =>
          self.messages = pre.messages \cup {inmsg.body.message}
    /\ Delivered \subseteq self.messages

\* C16 witness: a broadcast adds a second value to a Value Set that held
\* one, while gossip of the first is still outstanding.
ValueSetWitness ==
    /\ Kind = "broadcast"
    /\ pre.messages = {1}
    /\ self.messages = {1, 2}
    /\ pre.message_buffer # EmptyMap

\* C17 (Retry Buffer well-formedness): after every step the value of every
\* entry of the Retry Buffer is in the Value Set, and every key of the
\* buffer is at least 1 and at most the message identifier counter.
BufferWellFormed ==
    \A k \in DOMAIN self.message_buffer :
        /\ self.message_buffer[k].message \in self.messages
        /\ k >= 1
        /\ k <= self.msg_id_counter

\* the same for the process of main: well-formed in every state the main
\* thread handles a further message from; a flood cut short by a failed
\* write leaves entries whose value is not in the Value Set, and the
\* process ends there
WellFormedUnlessFailed ==
    proc.main # "failed" => BufferWellFormed

\* a write failed in the flood of a broadcast: the entry of the gossip that
\* failed is in the buffer, its value is not in the Value Set
FailedMidFlood ==
    /\ proc.main = "failed"
    /\ Kind = "broadcast"
    /\ out = <<>>
    /\ self.msg_id_counter = pre.msg_id_counter + 1
    /\ \E k \in DOMAIN self.message_buffer :
          self.message_buffer[k].message \notin self.messages

\* C17 witness: a retry tick has re-keyed two entries; the greater key is
\* the counter itself.
BufferWellFormedWitness ==
    /\ Kind = "resend_un_acked"
    /\ Cardinality(DOMAIN self.message_buffer) = 2
    /\ self.msg_id_counter \in DOMAIN self.message_buffer

(***************************************************************************)
(* Properties of the end-to-end scenario (specification ScenarioSpec).     *)
(* pre.id is the node that took the latest step.                           *)
(***************************************************************************)
\* the gossip and acknowledgements in flight
PeerTraffic == {m \in net : m.body.type \in {"broadcast", "broadcast_ok"}}

\* the step wrote exactly one acknowledgement, last, back to the sender of
\* the broadcast handled and carrying its msg_id
AcksSender ==
    /\ Acks(out) = {Len(out)}
    /\ out[Len(out)].src = inmsg.dest
    /\ out[Len(out)].dest = inmsg.src
    /\ out[Len(out)].body.in_reply_to = inmsg.body.msg_id

\* the step wrote exactly one gossip message, carrying 7, to node n
GossipsOnlyTo(n) ==
    /\ Cardinality(Gossip(out)) = 1
    /\ \A i \in Gossip(out) :
          /\ out[i].src = pre.id
          /\ out[i].dest = n
          /\ out[i].body.message = 7
          /\ out[i].body.msg_id \in DOMAIN node[pre.id].message_buffer
                                       \ DOMAIN pre.message_buffer

\* C8 (end-to-end scenario): n1 forwards the client's 7 to n2 only and
\* acknowledges the client; n2, on first receipt from n1, forwards it to n3
\* only; n3 forwards nothing; every broadcast is acknowledged to its sender
\* with its msg_id; a read on n3 after it got the value returns exactly 7;
\* when no gossip or acknowledgement is in flight any more, every Retry
\* Buffer is empty.
EndToEnd ==
    /\ Kind = "broadcast" =>
          /\ AcksSender
          /\ inmsg.body.message = 7
          /\ pre.id = "n1" /\ inmsg.src = "c1" => GossipsOnlyTo("n2")
          /\ pre.id = "n2" =>
                /\ inmsg.src = "n1"
                /\ IF 7 \in pre.messages THEN Gossip(out) = {}
                   ELSE GossipsOnlyTo("n3")
          /\ pre.id = "n3" => inmsg.src = "n2" /\ Gossip(out) = {}
    /\ Kind = "read" =>
          /\ Len(out) = 1
          /\ out[1].body.messages = IF 7 \in pre.messages THEN <<7>> ELSE <<>>
    /\ \A n \in ClusterNodes : node[n].messages \subseteq {7}
    /\ (env.broadcasts = 1 /\ PeerTraffic = {}) =>
          /\ \A n \in ClusterNodes : node[n].message_buffer = EmptyMap
          /\ \A n \in ClusterNodes : 7 \in node[n].messages

\* C8 witness: with no retry tick having resent anything (each node has
\* written three messages), a read on n3 returns 7 and the Retry Buffers of
\* n1 and n2, which held the gossip, are empty.
EndToEndWitness ==
    /\ Kind = "read"
    /\ pre.id = "n3"
    /\ out[1].body.messages = <<7>>
    /\ PeerTraffic = {}
    /\ \A n \in ClusterNodes : node[n].msg_id_counter = 3
    /\ \A n \in ClusterNodes : node[n].message_buffer = EmptyMap

(***************************************************************************)
(* Properties of the unique-ids node (specification UniqueIdsSpec).        *)
(***************************************************************************)
\* C20 (unique id generation): the ids one node returned are pairwise
\* distinct, and distinct from every id another node returned; a generate
\* request gets exactly one generate_ok, from the request's dest to its src,
\* with in_reply_to the request's msg_id, the counter raised by one as its
\* msg_id and the node id joined with that counter as its id; a message of
\* any other kind gets no response and leaves the node as it was.
UniqueIds ==
    /\ \A n \in UniqueNodeIds :
          \A i, j \in 1..Len(hist.issued[n]) :
              i # j => hist.issued[n][i] # hist.issued[n][j]
    /\ \A n, m \in UniqueNodeIds :
          n # m => Range(hist.issued[n]) \cap Range(hist.issued[m]) = {}
    /\ \A n \in UniqueNodeIds : Len(hist.issued[n]) = node[n].msg_id_counter
    /\ Kind = "generate" =>
          /\ node[pre.id].msg_id_counter = pre.msg_id_counter + 1
          /\ Len(out) = 1
          /\ out[1].src = inmsg.dest
          /\ out[1].dest = inmsg.src
          /\ out[1].body.type = "generate_ok"
          /\ out[1].body.in_reply_to = inmsg.body.msg_id
          /\ out[1].body.msg_id = pre.msg_id_counter + 1
          /\ out[1].body.id = pre.id \o "/" \o ToString(pre.msg_id_counter + 1)
    /\ Kind \notin {"generate", "none"} =>
          /\ out = <<>>
          /\ node[pre.id] = pre

\* C20 witness: n1 has returned eleven ids and n11 at least one, so that
\* the ids n1/11 and n11/1 are both out.
UniqueIdsWitness ==
    /\ Kind = "generate"
    /\ Len(hist.issued["n1"]) = 11
    /\ Len(hist.issued["n11"]) >= 1
    /\ out[1].body.id = "n1/11"

(***************************************************************************)
(* Properties of the cluster on lossy channels (FairClusterSpec).          *)
(***************************************************************************)
\* the bound on the counter keeps some node from a retry tick or from
\* handling a message in flight
Blocked ==
    \/ \E n \in ClusterNodes :
          node[n].msg_id_counter + Cardinality(DOMAIN node[n].message_buffer)
              > MaxMsgId
    \/ \E msg \in net :
          handle_message(node[msg.dest], msg, <<>>).node.msg_id_counter > MaxMsgId

Known(v) == \E n \in ClusterNodes : v \in node[n].messages

Everywhere(v) == \A n \in ClusterNodes : v \in node[n].messages

\* C18 (acknowledgements clear only the sender's own entry): when a node of
\* the cluster handles a broadcast_ok that removes an entry of its Retry
\* Buffer, the entry is for the node that sent the broadcast_ok and its
\* value is in that node's Value Set; the entries for other neighbors are
\* all still in the buffer afterwards.
AckFromTarget ==
    Kind = "broadcast_ok" =>
        LET B == pre.message_buffer
            B2 == node[pre.id].message_buffer
            k == inmsg.body.in_reply_to
        IN /\ inmsg.src \in ClusterNodes
           /\ k \in DOMAIN B =>
                 /\ B[k].node = inmsg.src
                 /\ B[k].message \in node[inmsg.src].messages
           /\ \A j \in DOMAIN B :
                 B[j].node # inmsg.src => j \in DOMAIN B2 /\ B2[j] = B[j]

\* C18 witness: n2 has sends outstanding to n1 and to n3; the
\* acknowledgement from n3 removes the entry for n3 and leaves the one for n1.
AckFromTargetWitness ==
    /\ Kind = "broadcast_ok"
    /\ pre.id = "n2"
    /\ inmsg.src = "n3"
    /\ {e.node : e \in Entries(pre.message_buffer)} = {"n1", "n3"}
    /\ {e.node : e \in Entries(node["n2"].message_buffer)} = {"n1"}

\* C1 (eventual convergence), as claimed: a value some node has received is
\* eventually in the Value Set of every node (as far as the bound on the
\* counters lets the nodes run), whenever the topology message arrives.
Convergence ==
    \A v \in Values : [](Known(v) => <>(Everywhere(v) \/ Blocked))

\* The same when every node has its topology before the first broadcast:
\* supporting check that the fairness above is enough for the flood and the
\* retries to carry a value through the cluster.
ConvergenceAfterTopology ==
    [](env.topologised = ClusterNodes /\ env.broadcasts = 0
          => \A v \in Values : [](Known(v) => <>(Everywhere(v) \/ Blocked)))

\* every Retry Buffer of the cluster is empty
Quiet == \A n \in ClusterNodes : node[n].message_buffer = EmptyMap

\* One round of the race that stands between the fairness of ticks and
\* deliveries and the emptying of the buffers: on channels that lose and
\* duplicate nothing, a node handles the acknowledgement of gossip it sent,
\* from the neighbor that by now has the value, after a retry tick re-keyed
\* the entry; the acknowledgement is ignored and the entry stays outstanding.
\* Every further round raises the counter, so that no behaviour of the model
\* within MaxMsgId repeats it for ever.
StaleAcknowledgement ==
    /\ Kind = "broadcast_ok"
    /\ inmsg.body.in_reply_to \notin DOMAIN pre.message_buffer
    /\ node[pre.id].message_buffer = pre.message_buffer
    /\ \E k \in DOMAIN pre.message_buffer :
          /\ k > inmsg.body.in_reply_to
          /\ pre.message_buffer[k].node = inmsg.src
          /\ pre.message_buffer[k].message \in node[inmsg.src].messages

(***************************************************************************)
(* Properties of the process (FairProcSpec).                               *)
(***************************************************************************)
\* a bound of the model, not the program, keeps a thread from its step
ProcBlocked ==
    \/ Len(proc.chan) >= MaxChan
    \/ /\ proc.chan # <<>>
       /\ \A order \in IterOrders(node[SelfId], Head(proc.chan)) :
             handle_message(node[SelfId], Head(proc.chan), order)
                 .node.msg_id_counter > MaxMsgId

\* the latest step of the main thread took the oldest message of the
\* channel and applied handle_message to it, and no thread but main moved
HandledHeadOfChannel ==
    /\ proc.main = "dispatch"
    /\ proc.chan # <<>>
    /\ proc'.chan = Tail(proc.chan)
    /\ proc'.reader = proc.reader
    /\ proc'.timer = proc.timer
    /\ inmsg' = Head(proc.chan)
    /\ pre' = node[SelfId]
    /\ \E order \in IterOrders(node[SelfId], Head(proc.chan)) :
          LET r == handle_message(node[SelfId], Head(proc.chan), order)
          IN node'[SelfId] = r.node /\ out' = r.out

\* the main thread took the message at the head of the channel and a write
\* of its handling failed: the node is as the handler left it at that write
\* and the main thread handles nothing after it
FailedAtHeadOfChannel ==
    /\ proc.main = "dispatch"
    /\ proc.chan # <<>>
    /\ proc'.chan = Tail(proc.chan)
    /\ proc'.reader = proc.reader
    /\ proc'.timer = proc.timer
    /\ proc'.main = "failed"
    /\ inmsg' = Head(proc.chan)
    /\ pre' = node[SelfId]
    /\ \E order \in IterOrders(node[SelfId], Head(proc.chan)) :
          \E f \in 1..Len(handle_message(node[SelfId], Head(proc.chan), order).out) :
              LET r == handle_message_err(node[SelfId], Head(proc.chan), order, f)
              IN node'[SelfId] = r.node /\ out' = r.out

\* the channel changed by one message sent at its end, by a thread that is
\* not the main thread
SentIntoChannel ==
    /\ \E msg \in ProcInputs \cup {Message(SelfId, SelfId, ResendUnAcked)} :
          proc'.chan = Append(proc.chan, msg)
    /\ proc'.main = proc.main

\* what the race of an acknowledgement with a retry tick leaves, in the
\* order the main thread took them from the channel
RaceOutcomes ==
    LET B == pre.message_buffer
        B2 == self.message_buffer
    IN /\ \A e \in Entries(B2) : PairCount(B2, e) = 1
       /\ Kind = "broadcast_ok" =>
             \/ inmsg.body.in_reply_to \in DOMAIN B
                   /\ B2 = MapRemove(B, inmsg.body.in_reply_to)
             \/ inmsg.body.in_reply_to \notin DOMAIN B /\ B2 = B
       /\ (Kind = "resend_un_acked" /\ proc.main = "failed") =>
             B2 = B /\ Len(out) < Cardinality(DOMAIN B)
       /\ (Kind = "resend_un_acked" /\ proc.main # "failed") =>
             /\ Len(out) = Cardinality(DOMAIN B)
             /\ DOMAIN B \cap DOMAIN B2 = {}
             /\ \A k \in DOMAIN B :
                   \E k2 \in DOMAIN B2 :
                       /\ k2 > k
                       /\ B2[k2] = B[k]
                       /\ \E i \in Gossip(out) :
                             /\ out[i].body.msg_id = k2
                             /\ out[i].dest = B[k].node
       /\ Kind # "broadcast_ok" =>
             \A e \in Entries(B) : PairCount(B2, e) >= PairCount(B, e)

\* C14 (total order of inbound messages and retry ticks): the node changes
\* only when the main thread takes the oldest message of the channel and
\* handles it, whole or, when a write fails, up to that write, which ends
\* the main thread, while the other threads only add messages at the end
\* of the channel; and for an acknowledgement of id k racing a retry tick
\* there are two outcomes: the acknowledgement is handled first and removes
\* the entry, so that the tick has nothing of it to resend, or the tick is
\* handled first, re-keys and resends the entry, and the acknowledgement of
\* k finds no entry and changes nothing.  The buffer never holds two
\* entries for the same send and loses an entry only to an acknowledgement.
TotalOrder ==
    /\ [][(node' # node \/ out' # out \/ inmsg' # inmsg \/ pre' # pre)
             => (HandledHeadOfChannel \/ FailedAtHeadOfChannel)]_vars
    /\ [][proc'.chan # proc.chan
             => (HandledHeadOfChannel \/ FailedAtHeadOfChannel
                    \/ SentIntoChannel)]_vars
    /\ []RaceOutcomes

\* C14 witness: the tick was handled first; the acknowledgement of the old
\* id 2 is then ignored and the entry stays outstanding under the new id 4.
TotalOrderWitness ==
    /\ Kind = "broadcast_ok"
    /\ inmsg.body.in_reply_to = 2
    /\ DOMAIN pre.message_buffer = {4}
    /\ DOMAIN self.message_buffer = {4}
    /\ proc.lines = 3

\* C7 (shutdown), as claimed: once stdin has reached its end, and unless a
\* write fails, the main thread leaves the dispatch loop, stops and joins
\* the retry timer and the process exits.
Shutdown ==
    [](proc.reader = "done"
          => <>(proc.main \in {"exited", "failed"} \/ ProcBlocked))

\* What the code does instead: the main thread leaves the dispatch loop
\* only through a failed write, and resend_handler never ends.
NeverLeavesDispatch ==
    /\ proc.main \in {"dispatch", "failed"}
    /\ ~Over(proc.timer)
    /\ proc.term = 0

====
